---- MODULE Spec2Model ----
(***************************************************************************)
(* State machine of parsing/classifiers/nn/neural_network.py: the          *)
(* NeuralNetwork classifier (labels within a fixed capacity, lazily        *)
(* materialized parameter store, batched training schedule) and its        *)
(* two-file persistence (metadata at filename, weights at filename.model). *)
(* State machine of ucca/textutil.py: the process-wide spaCy pipeline that  *)
(* get_nlp sets up on first use.                                            *)
(***************************************************************************)
EXTENDS Integers, Sequences, FiniteSets, TLC

\* ------------------------------------------------------------------ bounds

\* max_num_labels given to the constructor (capacity of the output layer).
MaxNumLabels == 2
\* batch_size given to the constructor: fit the model every this many items.
BatchSize == 2
\* Training steps explored.
MaxIteration == 2
\* Calls of spacy.cli.download explored.
MaxDownloads == 2

\* ------------------------------------------------------------- vocabulary

\* The labels the parser discovers, in the order it discovers them.
LabelNames == <<"shift", "reduce", "finish", "swap">>

\* model_type of this classifier, and the model_type of another classifier
\* that may have written the same path.
ModelType == "nn"
OtherType == "sparse"

\* Errors as the caller sees them.
NoError == "None"
CapacityExceeded == "AssertionError: Exceeded maximum number of labels"
ModelTypeMismatch == "AssertionError: Model type does not match"
UnpackError == "ValueError: not enough values to unpack"
UnboundLocal == "UnboundLocalError: param_values"
IOFailure == "IOError"
NoSuchFile == "FileNotFoundError"

\* self.model before and after materialization.
NoModel == "None"
Materialized == "dynet"

VARIABLES
    labels,        \* self.labels: sequence of label names
    is_frozen,     \* self.is_frozen
    input_params,  \* self._input_params: the feature schema
    layers,        \* self._layers
    layer_dim,     \* self._layer_dim
    model,         \* self.model
    params,        \* self._params: OrderedDict as a sequence of [key, value]
    item_index,    \* self._item_index: items buffered since the last training step
    iteration,     \* self._iteration: training steps completed
    metaFile,      \* the file at filename: <<>> or <<record>>
    modelFile,     \* the file at filename + ".model": <<>> or <<values>>
    result,        \* what the last call returned or raised
    sameSave,      \* history: both files on disk were written by one save call
    snap,          \* history: the classifier as the last complete save saw it
    observed       \* history: observe calls made while not frozen

cls == <<labels, is_frozen, input_params, layers, layer_dim>>
store == <<model, params>>
counters == <<item_index, iteration>>
disk == <<metaFile, modelFile>>
history == <<sameSave, snap, observed>>
vars == <<cls, store, counters, disk, result, history>>

\* ---------------------------------------------------------------- helpers

Range(s) == {s[i] : i \in DOMAIN s}

Min(a, b) == IF a <= b THEN a ELSE b

\* A feature schema: ordered mapping name -> (num, dim).
OwnSchema ==
    << [name |-> "unigram", num |-> 50, dim |-> 4],
       [name |-> "bigram", num |-> 20, dim |-> 4] >>

OtherSchema == << [name |-> "unigram", num |-> 30, dim |-> 2] >>

RECURSIVE SumNumDim(_)
SumNumDim(ip) ==
    IF ip = <<>> THEN 0
    ELSE ip[1].num * ip[1].dim + SumNumDim(Tail(ip))

\* Faulty variant of InputDim: the width is computed from the schema the
\* classifier was constructed with and kept.
InputDimCached == SumNumDim(OwnSchema)

\* input_dim: sum(f.num * f.dim for f in self._input_params.values())
InputDim == SumNumDim(input_params)

\* param_keys, param_values = zip(*self._params.items())
Keys(p) == [i \in DOMAIN p |-> p[i].key]
Values(p) == [i \in DOMAIN p |-> p[i].value]

\* Faulty variant of Zip: the values are paired in the opposite order.
ZipReversed(keys, values) ==
    [i \in 1..Min(Len(keys), Len(values)) |->
        [key |-> keys[i], value |-> values[Len(values) + 1 - i]]]

\* OrderedDict(zip(param_keys, param_values)): zip stops at the shorter one.
Zip(keys, values) ==
    [i \in 1..Min(Len(keys), Len(values)) |->
        [key |-> keys[i], value |-> values[i]]]

\* The parameter keys of an architecture, in the order fixed at construction:
\* per-layer weight, per-layer bias, output projection.
ParamKeys(l) ==
    [i \in 1..(2 * l + 1) |->
        IF i = 2 * l + 1 THEN [name |-> "Wout", layer |-> 0]
        ELSE IF i % 2 = 1 THEN [name |-> "W", layer |-> (i + 1) \div 2]
        ELSE [name |-> "b", layer |-> i \div 2]]

\* Faulty variant of InitModelParams: every call builds a new store.
InitModelParamsAnew(m, p, l) ==
    [i \in 1..(2 * l + 1) |-> [key |-> ParamKeys(l)[i], value |-> i]]

\* init_model of the concrete classifier: materializes the store once and
\* leaves an already materialized store alone.
InitModelParams(m, p, l) ==
    IF m = NoModel
    THEN [i \in 1..(2 * l + 1) |-> [key |-> ParamKeys(l)[i], value |-> i]]
    ELSE p

\* One training step: every tensor of the store is updated.
TrainStep(p) == [i \in DOMAIN p |-> [p[i] EXCEPT !.value = @ + 10]]

\* Faulty variant of Resize: < for <=.
ResizeStrict(ls) == Len(ls) < MaxNumLabels

\* resize: assert self.num_labels <= self.max_num_labels
Resize(ls) == Len(ls) <= MaxNumLabels

\* Faulty variant of TypeCheck: the stored type is not looked at.
TypeCheckSkipped(d) == TRUE

\* load: assert model_type == self.model_type
TypeCheck(d) == d.type = ModelType

\* What a call returned or raised.
Outcome(op, err, ret) == [op |-> op, err |-> err, ret |-> ret]

\* ------------------------------------------------------------------- Init

\* Faulty variant of Init: _iteration starts at 1.
InitIterationOne ==
    /\ labels = <<>>
    /\ is_frozen = FALSE
    /\ input_params = OwnSchema
    /\ layers = 1
    /\ layer_dim = 100
    /\ model = NoModel
    /\ params = <<>>
    /\ item_index = 0
    /\ iteration = 1
    /\ metaFile = <<>>
    /\ modelFile = <<>>
    /\ result = Outcome("init", NoError, -1)
    /\ sameSave = FALSE
    /\ snap = <<>>
    /\ observed = 0

\* __init__: a new untrained classifier, nothing on disk.
Init ==
    /\ labels = <<>>
    /\ is_frozen = FALSE
    /\ input_params = OwnSchema
    /\ layers = 1
    /\ layer_dim = 100
    /\ model = NoModel
    /\ params = <<>>
    /\ item_index = 0
    /\ iteration = 0
    /\ metaFile = <<>>
    /\ modelFile = <<>>
    /\ result = Outcome("init", NoError, -1)
    /\ sameSave = FALSE
    /\ snap = <<>>
    /\ observed = 0

\* ---------------------------------------------------------------- actions

\* The next label the parser has not added yet.
NewLabels ==
    {LabelNames[i] : i \in {j \in DOMAIN LabelNames :
        /\ LabelNames[j] \notin Range(labels)
        /\ \A k \in 1..(j - 1) : LabelNames[k] \in Range(labels)}}

\* Faulty variant of AddLabel: the label is put in front of the others.
AddLabelAtFront(name) ==
    /\ name \in NewLabels
    /\ labels' = <<name>> \o labels
    /\ result' = IF Resize(Append(labels, name))
                 THEN Outcome("add_label", NoError, Len(labels))
                 ELSE Outcome("add_label", CapacityExceeded, -1)
    /\ UNCHANGED <<is_frozen, input_params, layers, layer_dim>>
    /\ UNCHANGED <<store, counters, disk, history>>

\* add_label(name): append the label, then resize() checks the capacity.
\* Returns the new label's index.
AddLabel(name) ==
    /\ name \in NewLabels
    /\ labels' = Append(labels, name)
    /\ result' = IF Resize(Append(labels, name))
                 THEN Outcome("add_label", NoError, Len(labels))
                 ELSE Outcome("add_label", CapacityExceeded, -1)
    /\ UNCHANGED <<is_frozen, input_params, layers, layer_dim>>
    /\ UNCHANGED <<store, counters, disk, history>>

AddLabelCall == \E name \in Range(LabelNames) : AddLabel(name)

\* score(features): materializes the store on first use, then a pure read.
Score ==
    /\ result' = Outcome("score", NoError, Len(labels))
    /\ model' = Materialized
    /\ params' = InitModelParams(model, params, layers)
    /\ UNCHANGED <<cls, counters, disk, history>>

\* Faulty variant of Learns: is_frozen is ignored.
LearnsAlways == TRUE

\* observe buffers and trains only while the classifier is not frozen.
Learns == ~is_frozen

\* observe(features, gold): materializes the store on first use and buffers
\* one item; the batch_size-th buffered item runs one training step, clears
\* the buffer and counts an iteration.  A frozen classifier neither buffers
\* nor trains.
Observe ==
    /\ iteration < MaxIteration
    /\ model' = Materialized
    /\ IF ~Learns
       THEN /\ params' = InitModelParams(model, params, layers)
            /\ result' = Outcome("observe", NoError, 0)
            /\ UNCHANGED <<counters, observed>>
       ELSE /\ observed' = observed + 1
            /\ IF item_index + 1 >= BatchSize
               THEN /\ params' = TrainStep(InitModelParams(model, params, layers))
                    /\ item_index' = 0
                    /\ iteration' = iteration + 1
                    /\ result' = Outcome("observe", NoError, 1)
               ELSE /\ params' = InitModelParams(model, params, layers)
                    /\ item_index' = item_index + 1
                    /\ iteration' = iteration
                    /\ result' = Outcome("observe", NoError, 0)
    /\ UNCHANGED <<cls, disk, sameSave, snap>>

Freeze ==
    /\ is_frozen' = TRUE
    /\ result' = Outcome("freeze", NoError, -1)
    /\ UNCHANGED <<labels, input_params, layers, layer_dim>>
    /\ UNCHANGED <<store, counters, disk, history>>

Unfreeze ==
    /\ is_frozen' = FALSE
    /\ result' = Outcome("unfreeze", NoError, -1)
    /\ UNCHANGED <<labels, input_params, layers, layer_dim>>
    /\ UNCHANGED <<store, counters, disk, history>>

\* Faulty variant of SaveDict: the training counters are written too.
SaveDictWithCounters ==
    [ type |-> ModelType,
      labels |-> labels,
      is_frozen |-> is_frozen,
      input_params |-> input_params,
      param_keys |-> Keys(params),
      layers |-> layers,
      layer_dim |-> layer_dim,
      item_index |-> item_index,
      iteration |-> iteration ]

\* d = {...}: the metadata record save hands to save_dict.
SaveDict ==
    [ type |-> ModelType,
      labels |-> labels,
      is_frozen |-> is_frozen,
      input_params |-> input_params,
      param_keys |-> Keys(params),
      layers |-> layers,
      layer_dim |-> layer_dim ]

\* What a complete save leaves for a later load to reproduce.
Snapshot == [labels |-> labels, is_frozen |-> is_frozen, params |-> params]

\* Faulty variant of Save: a save that got as far as the metadata empties the
\* buffer of observed items.
SaveClearingBuffer(wr) ==
    /\ UNCHANGED <<cls, iteration, observed>>
    /\ IF params = <<>>
       THEN /\ result' = Outcome("save", UnpackError, -1)
            /\ UNCHANGED <<store, item_index, disk, sameSave, snap>>
       ELSE /\ metaFile' = << SaveDict >>
            /\ item_index' = 0
            /\ model' = Materialized
            /\ params' = InitModelParams(model, params, layers)
            /\ IF wr = "ok"
               THEN /\ modelFile' = << Values(params) >>
                    /\ sameSave' = TRUE
                    /\ snap' = << Snapshot >>
                    /\ result' = Outcome("save", NoError, -1)
               ELSE /\ modelFile' = modelFile
                    /\ sameSave' = FALSE
                    /\ snap' = <<>>
                    /\ result' = IF wr = "ValueError"
                                 THEN Outcome("save", NoError, -1)
                                 ELSE Outcome("save", IOFailure, -1)

\* save(): wr says what self.model.save did: "ok", "ValueError" or another
\* error (nothing is written to the weights file unless it is "ok").
Save(wr) ==
    /\ UNCHANGED <<cls, counters, observed>>
    /\ IF params = <<>>
       THEN \* zip(*[]) yields nothing to unpack into two names
            /\ result' = Outcome("save", UnpackError, -1)
            /\ UNCHANGED <<store, disk, sameSave, snap>>
       ELSE /\ metaFile' = << SaveDict >>
            /\ model' = Materialized
            /\ params' = InitModelParams(model, params, layers)
            /\ IF wr = "ok"
               THEN /\ modelFile' = << Values(params) >>
                    /\ sameSave' = TRUE
                    /\ snap' = << Snapshot >>
                    /\ result' = Outcome("save", NoError, -1)
               ELSE /\ modelFile' = modelFile
                    /\ sameSave' = FALSE
                    /\ snap' = <<>>
                    /\ result' = IF wr = "ValueError"
                                 THEN Outcome("save", NoError, -1)
                                 ELSE Outcome("save", IOFailure, -1)

SaveCall == \E wr \in {"ok", "ValueError", "IOError"} : Save(wr)

\* Faulty variant of ReadFailure: after the caught KeyError load ends normally.
ReadFailureSwallowed(rd) ==
    IF modelFile # <<>> /\ rd = "KeyError" THEN NoError ELSE IOFailure

\* What load raises when self.model.load failed: a KeyError is caught and
\* printed, and param_values, never assigned, is then read; any other error
\* (such as a missing file) is not caught.
ReadFailure(rd) ==
    IF modelFile # <<>> /\ rd = "KeyError" THEN UnboundLocal ELSE IOFailure

\* Faulty variant of Load: the stored type is checked after the fields of the
\* metadata were assigned.
LoadTypeCheckLate(rd) ==
    /\ UNCHANGED <<counters, disk, history>>
    /\ IF metaFile = <<>>
       THEN /\ result' = Outcome("load", NoSuchFile, -1)
            /\ UNCHANGED <<cls, store>>
       ELSE /\ labels' = metaFile[1].labels
            /\ is_frozen' = metaFile[1].is_frozen
            /\ input_params' = metaFile[1].input_params
            /\ layers' = metaFile[1].layers
            /\ layer_dim' = metaFile[1].layer_dim
            /\ IF ~TypeCheck(metaFile[1])
               THEN /\ result' = Outcome("load", ModelTypeMismatch, -1)
                    /\ UNCHANGED store
               ELSE /\ model' = Materialized
                    /\ IF modelFile # <<>> /\ rd = "ok"
                       THEN /\ params' = Zip(metaFile[1].param_keys, modelFile[1])
                            /\ result' = Outcome("load", NoError, -1)
                       ELSE /\ params' = InitModelParams(model, params,
                                                         metaFile[1].layers)
                            /\ result' = Outcome("load", ReadFailure(rd), -1)

\* load(): rd says what self.model.load did: "ok", "KeyError" or another
\* error; a missing weights file cannot be read.
Load(rd) ==
    /\ UNCHANGED <<counters, disk, history>>
    /\ IF metaFile = <<>>
       THEN /\ result' = Outcome("load", NoSuchFile, -1)
            /\ UNCHANGED <<cls, store>>
       ELSE IF ~TypeCheck(metaFile[1])
       THEN /\ result' = Outcome("load", ModelTypeMismatch, -1)
            /\ UNCHANGED <<cls, store>>
       ELSE /\ labels' = metaFile[1].labels
            /\ is_frozen' = metaFile[1].is_frozen
            /\ input_params' = metaFile[1].input_params
            /\ layers' = metaFile[1].layers
            /\ layer_dim' = metaFile[1].layer_dim
            /\ model' = Materialized
            /\ IF modelFile # <<>> /\ rd = "ok"
               THEN /\ params' = Zip(metaFile[1].param_keys, modelFile[1])
                    /\ result' = Outcome("load", NoError, -1)
               ELSE /\ params' = InitModelParams(model, params, metaFile[1].layers)
                    /\ result' = Outcome("load", ReadFailure(rd), -1)

LoadCall == \E rd \in {"ok", "KeyError", "IOError"} : Load(rd)

\* The file another classifier's save wrote: three labels, two hidden layers.
ExternalDict(t) ==
    [ type |-> t,
      labels |-> <<"reduce", "shift", "finish">>,
      is_frozen |-> TRUE,
      input_params |-> OtherSchema,
      param_keys |-> ParamKeys(2),
      layers |-> 2,
      layer_dim |-> 50 ]

\* Another classifier (of either model type) has saved its model to the path
\* before this one wrote there.
ExternalSave(t) ==
    /\ metaFile = <<>>
    /\ metaFile' = << ExternalDict(t) >>
    /\ modelFile' = << <<91, 92, 93, 94, 95>> >>
    /\ sameSave' = TRUE
    /\ snap' = <<>>
    /\ result' = Outcome("external_save", NoError, -1)
    /\ UNCHANGED <<cls, store, counters, observed>>

ExternalSaveCall == \E t \in {ModelType, OtherType} : ExternalSave(t)

\* A complete weights file loses its last value.
CorruptWeights ==
    /\ metaFile # <<>>
    /\ modelFile # <<>>
    /\ modelFile[1] # <<>>
    /\ Len(modelFile[1]) = Len(metaFile[1].param_keys)
    /\ modelFile' = << SubSeq(modelFile[1], 1, Len(modelFile[1]) - 1) >>
    /\ snap' = <<>>
    /\ result' = Outcome("corrupt_weights", NoError, -1)
    /\ UNCHANGED <<cls, store, counters, metaFile, sameSave, observed>>

\* The weights file is deleted.
RemoveWeights ==
    /\ modelFile # <<>>
    /\ modelFile' = <<>>
    /\ sameSave' = FALSE
    /\ snap' = <<>>
    /\ result' = Outcome("remove_weights", NoError, -1)
    /\ UNCHANGED <<cls, store, counters, metaFile, observed>>


\* ------------------------------------------------------ ucca/textutil.py

\* get_nlp: the default of os.environ.get("SPACY_MODEL", "en_core_web_md"),
\* and another model the variable may name.
DefaultModel == "en_core_web_md"
OtherModel == "en_core_web_sm"
ModelNames == {DefaultModel, OtherModel}
\* SPACY_MODEL is not in the environment.
Unset == "unset"

\* nlp.instance = None
NoInstance == 0
\* nlp.tokenizer = None
NoTokenizer == [pipeline |-> 0, kind |-> "None"]
\* The tokenizer a pipeline is created with, and the
\* lambda words: spacy.tokens.Doc(nlp.instance.vocab, words=words) that
\* get_nlp puts in its place.
Original(i) == [pipeline |-> i, kind |-> "original"]
PreTokenized(i) == [pipeline |-> i, kind |-> "pretokenized"]

\* Errors of get_nlp as the caller sees them: the OSError of line 26, and
\* whatever spacy.cli.download itself ends with when it fails.
OSError == "OSError: Failed to get spaCy model"
DownloadError == "SystemExit: download failed"

VARIABLES
    nlp_instance,   \* nlp.instance: NoInstance or the index of a pipeline
    nlp_tokenizer,  \* nlp.tokenizer
    pipelines,      \* the objects spacy.load has returned, in order: for each
                    \* the model it was loaded from and its tokenizer attribute
    SPACY_MODEL,    \* os.environ["SPACY_MODEL"], or Unset
    installed,      \* the models spacy.load can find
    downloads,      \* calls of spacy.cli.download so far
    called,         \* the last call and how it ended
    failed          \* history: some call of get_nlp has raised OSError

cache == <<nlp_instance, nlp_tokenizer, pipelines>>
environment == <<SPACY_MODEL, installed, downloads>>
nlpVars == <<cache, environment, called, failed>>

Ended(op, err, inst, tok) ==
    [op |-> op, err |-> err, instance |-> inst, tokenizer |-> tok]

\* nlp.instance = None; nlp.tokenizer = None (lines 33-34), in a process
\* started without SPACY_MODEL and with no model installed.
NlpInit ==
    /\ nlp_instance = NoInstance
    /\ nlp_tokenizer = NoTokenizer
    /\ pipelines = <<>>
    /\ SPACY_MODEL = Unset
    /\ installed = {}
    /\ downloads = 0
    /\ called = Ended("import", NoError, NoInstance, NoTokenizer)
    /\ failed = FALSE

\* model_name = os.environ.get("SPACY_MODEL", "en_core_web_md")
ModelName == IF SPACY_MODEL = Unset THEN DefaultModel ELSE SPACY_MODEL

\* Faulty variant of InstanceIsNone: the pipeline is set up on every call.
InstanceNotChecked == TRUE

\* if nlp.instance is None:
InstanceIsNone == nlp_instance = NoInstance

\* nlp.instance = spacy.load(model_name) when the load succeeds, then the two
\* tokenizer assignments of lines 28-29.
SetUp ==
    /\ pipelines' = Append(pipelines,
                           [model |-> ModelName,
                            tokenizer |-> PreTokenized(Len(pipelines) + 1)])
    /\ nlp_instance' = Len(pipelines) + 1
    /\ nlp_tokenizer' = Original(Len(pipelines) + 1)

\* What a caller of get_nlp gets back: op is the calling function, tokenized
\* the argument of get_tokenizer.
Returned(op, tokenized) ==
    Ended(op, NoError, nlp_instance',
          IF op # "get_tokenizer" THEN NoTokenizer
          ELSE IF tokenized THEN pipelines'[nlp_instance'].tokenizer
          ELSE nlp_tokenizer')

\* get_nlp(), called by op.  dl says what spacy.cli.download does when it is
\* reached: it installs the model, returns without having installed it, or
\* fails itself.
get_nlp(op, tokenized, dl) ==
    /\ IF ~InstanceIsNone
       THEN /\ UNCHANGED <<cache, environment, failed>>
            /\ called' = Returned(op, tokenized)
       ELSE IF ModelName \in installed
       THEN /\ SetUp
            /\ UNCHANGED <<environment, failed>>
            /\ called' = Returned(op, tokenized)
       ELSE /\ downloads < MaxDownloads
            /\ downloads' = downloads + 1
            /\ UNCHANGED SPACY_MODEL
            /\ IF dl = "fails"
               THEN /\ UNCHANGED <<cache, installed, failed>>
                    /\ called' = Ended(op, DownloadError, NoInstance, NoTokenizer)
               ELSE IF dl = "installs"
               THEN /\ installed' = installed \cup {ModelName}
                    /\ SetUp
                    /\ UNCHANGED failed
                    /\ called' = Returned(op, tokenized)
               ELSE /\ UNCHANGED <<cache, installed>>
                    /\ failed' = TRUE
                    /\ called' = Ended(op, OSError, NoInstance, NoTokenizer)

DownloadOutcomes == {"installs", "returns", "fails"}

GetNlpCall == \E dl \in DownloadOutcomes : get_nlp("get_nlp", FALSE, dl)

\* nlp(*args, **kwargs): get_nlp()(*args, **kwargs)
NlpCall == \E dl \in DownloadOutcomes : get_nlp("nlp", FALSE, dl)

\* get_tokenizer(tokenized): get_nlp(), then nlp.instance.tokenizer if
\* tokenized else nlp.tokenizer.
GetTokenizerCall ==
    \E tokenized \in BOOLEAN, dl \in DownloadOutcomes :
        get_nlp("get_tokenizer", tokenized, dl)

\* The environment: SPACY_MODEL is set or removed between calls.
SetEnv ==
    \E name \in ModelNames \cup {Unset} :
        /\ name # SPACY_MODEL
        /\ SPACY_MODEL' = name
        /\ called' = Ended("setenv", NoError, NoInstance, NoTokenizer)
        /\ UNCHANGED <<cache, installed, downloads, failed>>

\* The environment: a model is installed by hand, as the OSError of get_nlp
\* asks for.
InstallModel ==
    \E name \in ModelNames \ installed :
        /\ installed' = installed \cup {name}
        /\ called' = Ended("install", NoError, NoInstance, NoTokenizer)
        /\ UNCHANGED <<cache, SPACY_MODEL, downloads, failed>>

\* The environment: an installed model is removed.
UninstallModel ==
    \E name \in installed :
        /\ installed' = installed \ {name}
        /\ called' = Ended("uninstall", NoError, NoInstance, NoTokenizer)
        /\ UNCHANGED <<cache, SPACY_MODEL, downloads, failed>>

\* --------------------------------------------------------- specifications

\* The operations of the classifier; none of them touches the pipeline.
Next ==
    \/ AddLabelCall /\ UNCHANGED nlpVars
    \/ Score /\ UNCHANGED nlpVars
    \/ Observe /\ UNCHANGED nlpVars
    \/ Freeze /\ UNCHANGED nlpVars
    \/ Unfreeze /\ UNCHANGED nlpVars
    \/ SaveCall /\ UNCHANGED nlpVars
    \/ LoadCall /\ UNCHANGED nlpVars
    \/ ExternalSaveCall /\ UNCHANGED nlpVars
    \/ CorruptWeights /\ UNCHANGED nlpVars
    \/ RemoveWeights /\ UNCHANGED nlpVars

\* The functions of textutil and its environment; none of them touches the
\* classifier.
NlpNext ==
    \/ GetNlpCall /\ UNCHANGED vars
    \/ NlpCall /\ UNCHANGED vars
    \/ GetTokenizerCall /\ UNCHANGED vars
    \/ SetEnv /\ UNCHANGED vars
    \/ InstallModel /\ UNCHANGED vars
    \/ UninstallModel /\ UNCHANGED vars

\* The process after import: a classifier has been constructed and textutil
\* has been loaded.
Start == Init /\ NlpInit

\* A process that uses the classifier.
Spec == Start /\ [][Next]_<<vars, nlpVars>>

\* A process that uses the pipeline.
SpecNlp == Start /\ [][NlpNext]_<<vars, nlpVars>>

\* ----------------------------------------------------------------- claims

IsPrefix(s, t) == Len(s) <= Len(t) /\ SubSeq(t, 1, Len(s)) = s

LoadCompleted == result.op = "load" /\ result.err = NoError

\* Every call records itself in result, so in a step result'.op names the
\* call that made it.
Did(op) == result'.op = op

\* C1: in every reachable state the number of labels is at most
\* max_num_labels, also after a rejected add_label and after a load.
C1_LabelsWithinCapacity == Len(labels) <= MaxNumLabels

\* C2: add_label fails with CapacityExceeded exactly when the label count
\* has already reached max_num_labels: below the capacity it succeeds, and
\* since every call makes the list one longer, from max_num_labels - 1 labels
\* one call succeeds and every later one fails.
C2_AddLabelCapacity ==
    [][Did("add_label") =>
        /\ Len(labels') = Len(labels) + 1
        /\ (Len(labels) < MaxNumLabels => result'.err = NoError)
        /\ (Len(labels) >= MaxNumLabels => result'.err = CapacityExceeded)]_vars

\* C2 witness: all four labels were added one after the other; the last call
\* (the second past the capacity) failed.
C2_Witness ==
    /\ result.op = "add_label"
    /\ result.err = CapacityExceeded
    /\ labels = LabelNames
    /\ Len(labels) = MaxNumLabels + 2

\* C3: a load that completes from the two files a complete save left gives
\* the classifier the label sequence, is_frozen, parameter keys (in order)
\* and parameter values it had when it was saved.
C3_RoundTrip ==
    [][(snap # <<>> /\ Did("load") /\ result'.err = NoError) =>
        /\ labels' = snap[1].labels
        /\ is_frozen' = snap[1].is_frozen
        /\ Keys(params') = Keys(snap[1].params)
        /\ Values(params') = Values(snap[1].params)]_vars

\* C3 witness: a load of a complete save has completed, and it changed the
\* classifier back: the store had been trained further since the save.
C3_Witness ==
    /\ LoadCompleted
    /\ snap # <<>>
    /\ params = snap[1].params
    /\ labels = snap[1].labels
    /\ Len(labels) = 2
    /\ iteration = 2
    /\ params[1].value = 11

\* C4: a load that completes has read as many values as the metadata has
\* param_keys, and its store holds one entry per key.
C4_LoadChecksValueCount ==
    LoadCompleted =>
        /\ Len(modelFile[1]) = Len(metaFile[1].param_keys)
        /\ Len(params) = Len(metaFile[1].param_keys)

\* C5: save returns normally only when the metadata file and the weights file
\* on disk were written by that one call.
C5_SaveReportsWeightsFailure ==
    (result.op = "save" /\ result.err = NoError) =>
        (modelFile # <<>> /\ sameSave)

\* C6: a load of metadata whose type differs from the classifier's model_type
\* fails with ModelTypeMismatch whatever the weights file holds, and the
\* weights are not read into the store.
C6_TypeMismatchFails ==
    [][(Did("load") /\ metaFile # <<>> /\ metaFile[1].type # ModelType) =>
        /\ result'.err = ModelTypeMismatch
        /\ UNCHANGED store]_vars

\* C6 witness: the load of another model type's metadata failed with
\* ModelTypeMismatch while the weights file was missing.
C6_Witness ==
    /\ result.op = "load"
    /\ result.err = ModelTypeMismatch
    /\ metaFile # <<>>
    /\ modelFile = <<>>

\* C7: a load that completes pairs keys and values written by the same save.
C7_LoadPairsOneSave == LoadCompleted => sameSave

\* C8: on an unfrozen classifier an observe call below the batch size only
\* buffers the item (no weight changes); the batch_size-th runs exactly one
\* training step, empties the buffer and adds one to iteration.  After n such
\* calls iteration = n div batch_size and the buffer holds n mod batch_size.
C8_BatchSchedule ==
    /\ [](iteration = observed \div BatchSize /\ item_index = observed % BatchSize)
    /\ [][(Did("observe") /\ ~is_frozen) =>
            IF item_index + 1 = BatchSize
            THEN /\ result'.ret = 1
                 /\ iteration' = iteration + 1
                 /\ item_index' = 0
                 /\ \A i \in DOMAIN params : params'[i].value # params[i].value
            ELSE /\ result'.ret = 0
                 /\ iteration' = iteration
                 /\ item_index' = item_index + 1
                 /\ (model # NoModel => params' = params)]_vars

\* C8 witness: the call that filled the second batch has run its training step.
C8_Witness ==
    /\ result.op = "observe"
    /\ result.ret = 1
    /\ observed = 2 * BatchSize
    /\ iteration = 2
    /\ item_index = 0

\* C9: while is_frozen, an observe call changes no weight, whatever the
\* buffer holds, and score still returns; an unfrozen observe call that fills
\* the batch does change the weights of a store that has any.
C9_FrozenObserve ==
    [][/\ (Did("observe") /\ is_frozen) =>
            /\ (model # NoModel => params' = params)
            /\ UNCHANGED counters
       /\ (Did("score") /\ is_frozen) =>
            /\ result'.err = NoError
            /\ (model # NoModel => params' = params)
       /\ (Did("observe") /\ ~is_frozen /\ params # <<>>
                /\ item_index + 1 = BatchSize) =>
            params' # params]_vars

\* C9 witness: observe was called on a frozen, materialized classifier whose
\* buffer was one item short of the batch size, and after a training step.
C9_Witness ==
    /\ is_frozen
    /\ result.op = "observe"
    /\ item_index = BatchSize - 1
    /\ iteration = 1
    /\ params # <<>>

\* C10: a successful add_label returns the number of labels before the call,
\* which is the index of the one label it adds; add_label, observe, freeze, unfreeze and
\* save leave the label at every existing index as it was.
C10_LabelsAppendOnly ==
    [][/\ (Did("add_label") /\ result'.err = NoError) =>
            /\ result'.ret = Len(labels)
            /\ Len(labels') = Len(labels) + 1
       /\ (\E op \in {"add_label", "observe", "freeze", "unfreeze", "save"} : Did(op)) =>
            IsPrefix(labels, labels')]_vars

\* C10 witness: the second add_label returned index 1.
C10_Witness ==
    /\ result.op = "add_label"
    /\ result.err = NoError
    /\ result.ret = 1
    /\ labels = <<"shift", "reduce">>

\* C11: input_dim is the sum of cardinality * dimension over the entries of the
\* classifier's current schema: 50*4 + 20*4 = 280 for the schema it was
\* constructed with, 30*2 = 60 once load has put the stored schema in its
\* place; no other schema is ever held.
C11_InputDim ==
    /\ input_params \in {OwnSchema, OtherSchema}
    /\ (input_params = OwnSchema => InputDim = 280)
    /\ (input_params = OtherSchema => InputDim = 60)

\* C11 witness: a completed load has replaced the schema by the stored one.
C11_Witness ==
    /\ LoadCompleted
    /\ input_params = OtherSchema
    /\ InputDim = 60

\* C12: a load in which reading the weights file fails (the file is missing,
\* or self.model.load raises KeyError or any other error) does not return
\* normally.
C12_ReadFailureRaises ==
    [][(Did("load") /\ (modelFile = <<>> \/ Load("KeyError") \/ Load("IOError")))
        => result'.err # NoError]_vars

\* C12 witness: self.model.load raised KeyError, which load caught and
\* printed; the call still ended with an error.
C12_Witness ==
    /\ result.op = "load"
    /\ result.err = UnboundLocal
    /\ modelFile # <<>>

\* C13: save on a classifier whose store is not materialized materializes it
\* and then writes metadata whose param_keys are the keys of that store.
C13_SaveMaterializesFirst ==
    [][(Did("save") /\ model = NoModel) =>
        /\ model' = Materialized
        /\ params' # <<>>
        /\ metaFile' # <<>>
        /\ metaFile'[1].param_keys = Keys(params')]_vars

\* C14: initialization leaves a materialized store as it is: the init_model
\* calls of save, of load (seen when its read of the weights fails, so that
\* nothing replaces the store afterwards), of score and of a non-training
\* observe change no key and no value.
C14_InitIdempotent ==
    [][model # NoModel =>
        /\ (Did("save") \/ Did("score")) => params' = params
        /\ (Did("load") /\ result'.err \in {UnboundLocal, IOFailure})
                => params' = params
        /\ (Did("observe") /\ result'.ret = 0) => params' = params]_vars

\* C14 witness: a save of a trained store has returned and the trained values
\* are still in the store.
C14_Witness ==
    /\ result.op = "save"
    /\ result.err = NoError
    /\ iteration = 1
    /\ params # <<>>
    /\ params[1].value = 11

\* The fields of the metadata file.
MetaFields ==
    {"type", "labels", "is_frozen", "input_params", "param_keys", "layers",
     "layer_dim"}

\* C15: both counters are 0 after construction, iteration never decreases,
\* save and load leave both counters as they are, and the metadata file has
\* no field for them.
C15_Counters ==
    /\ [](result.op = "init" => (item_index = 0 /\ iteration = 0))
    /\ [](metaFile # <<>> => DOMAIN metaFile[1] = MetaFields)
    /\ [][/\ iteration' >= iteration
          /\ (Did("save") \/ Did("load")) => UNCHANGED counters]_vars

\* C15 witness: a load has brought back the weights of before the training
\* step, and the counters still show the step and the buffered item.
C15_Witness ==
    /\ LoadCompleted
    /\ iteration = 1
    /\ item_index = 1
    /\ params # <<>>
    /\ params[1].value = 1

\* C16: a load that fails with ModelTypeMismatch leaves labels, is_frozen,
\* schema, layers, layer_dim and the store as they were.
C16_MismatchLeavesState ==
    [][(Did("load") /\ result'.err = ModelTypeMismatch) =>
        UNCHANGED <<cls, store>>]_vars

\* C16 witness: the load of another model type's files, both present, failed
\* on a classifier that has labels and a store.
C16_Witness ==
    /\ result.op = "load"
    /\ result.err = ModelTypeMismatch
    /\ modelFile # <<>>
    /\ labels # <<>>
    /\ params # <<>>
    /\ ~is_frozen

\* C17: a load that fails at the read of the weights leaves labels,
\* is_frozen, schema, layers, layer_dim and the store as they were.
C17_LoadAtomic ==
    [][(Did("load") /\ result'.err \in {UnboundLocal, IOFailure}) =>
        UNCHANGED <<cls, store>>]_vars

\* C18: save, whatever becomes of its weights write, leaves labels,
\* is_frozen, schema, layers, layer_dim and both counters as they were, and
\* leaves a materialized store as it was.
C18_SaveFrame ==
    [][Did("save") =>
        /\ UNCHANGED <<cls, counters>>
        /\ (model # NoModel => UNCHANGED store)]_vars

\* C18 witness: a save whose weights write failed with an error has ended on a
\* frozen classifier with two labels and one buffered item.
C18_Witness ==
    /\ result.op = "save"
    /\ result.err = IOFailure
    /\ is_frozen
    /\ Len(labels) = 2
    /\ item_index = 1

\* The step is a call of get_nlp, nlp or get_tokenizer.
PipelineCall == called'.op \in {"get_nlp", "nlp", "get_tokenizer"}

\* C19: get_nlp sets up the pipeline at most once.  spacy.load returns at most
\* one pipeline; before that nlp.instance and nlp.tokenizer are None; from
\* then on nlp.instance and nlp.tokenizer are never assigned again,
\* nlp.tokenizer is the tokenizer the pipeline was created with and the
\* pipeline's own tokenizer attribute is the pre-tokenized replacement.  A
\* call raises OSError exactly when the model could be loaded neither before
\* nor after a download that returned, and it leaves nlp.instance None; a
\* call made while nlp.instance is None and the model can be loaded sets the
\* pipeline up.
C19_SetUpOnce ==
    /\ [](Len(pipelines) <= 1)
    /\ [](nlp_instance = NoInstance =>
            (nlp_tokenizer = NoTokenizer /\ pipelines = <<>>))
    /\ [](nlp_instance # NoInstance =>
            /\ nlp_tokenizer = Original(nlp_instance)
            /\ pipelines[nlp_instance].tokenizer = PreTokenized(nlp_instance))
    /\ [][nlp_instance # NoInstance => UNCHANGED cache]_nlpVars
    /\ [][called'.err = OSError =>
            /\ PipelineCall
            /\ ModelName \notin installed
            /\ ModelName \notin installed'
            /\ downloads' = downloads + 1
            /\ nlp_instance' = NoInstance]_nlpVars
    /\ [][(/\ PipelineCall
           /\ nlp_instance = NoInstance
           /\ ModelName \notin installed'
           /\ called'.err # DownloadError) => called'.err = OSError]_nlpVars
    /\ [][(PipelineCall /\ nlp_instance = NoInstance /\ ModelName \in installed)
            => (nlp_instance' # NoInstance /\ called'.err = NoError)]_nlpVars

\* C19 witness: a call has raised OSError, a later call has set the pipeline
\* up, SPACY_MODEL names another model since, and get_tokenizer() has
\* returned the original tokenizer of the one pipeline.
C19_Witness ==
    /\ failed
    /\ nlp_instance # NoInstance
    /\ ModelName # pipelines[nlp_instance].model
    /\ called.op = "get_tokenizer"
    /\ called.tokenizer = Original(nlp_instance)

====
